---- MODULE Spec2Model ----
(***************************************************************************)
(* The size-class tables of tcmalloc's SizeMap (tcmalloc/common.cc):       *)
(* ValidSizeClasses, SetSizeClasses, MaybeRunTimeSizeClasses and Init,     *)
(* with the lookup sweep and the cold-class sweep of Init.                 *)
(*                                                                         *)
(* Sizes are bytes.  The alignment constants, kMaxSmallSize and the index  *)
(* arithmetic of ClassIndex keep the values of tcmalloc/common.h; the      *)
(* ceiling kMaxSize and the number of classes are small so that every      *)
(* size up to the ceiling can be enumerated.                               *)
(***************************************************************************)
EXTENDS Integers, Sequences, FiniteSets, TLC

(***************************************************************************)
(* Bounds of the model.                                                    *)
(***************************************************************************)
\* kMaxSize in KiB.
MaxSizeKiB == 8
\* Number of classes of one register (common.h: 46..89 in the shipped builds).
kNumBaseClasses == 5

(***************************************************************************)
(* Constants of tcmalloc/common.h, tcmalloc/span.h.  kPageShift 12 is the  *)
(* smallest page shift common.h offers (every offered shift makes          *)
(* kMultiPageSize larger than kMaxSmallSize); kHasExpandedClasses is TRUE  *)
(* as in the builds that have a cold register.                             *)
(***************************************************************************)
kPageShift == 12
kAlignment == 8
kMultiPageAlignment == 64
kMaxObjectsToMove == 128
kMaxSmallSize == 1024
kCacheSize == 4
kColdSizesCapacity == 12
kHasExpandedClasses == TRUE
kMaxSize == MaxSizeKiB * 1024
kMultiPageSize == 2 ^ kPageShift
kNumClasses == kNumBaseClasses * (IF kHasExpandedClasses THEN 2 ELSE 1)
kExpandedClassesStart == IF kHasExpandedClasses THEN kNumBaseClasses ELSE 0
kClassArraySize == ((kMaxSize + 127 + 120 * 128) \div 128) + 1
ClassArrayLen == kClassArraySize * (IF kHasExpandedClasses THEN 2 ELSE 1)

\* SizeMap::ClassIndex: sizes up to kMaxSmallSize are indexed by ceil(s/8),
\* larger ones by ceil(s/128) behind the small ones.
ClassIndex(s) == IF s <= kMaxSmallSize THEN (s + 7) \div 8 ELSE (s + 127 + 120 * 128) \div 128

\* size_map_internal::IsReducedBelow64SizeClass: the classes the reduced
\* build keeps: everything from 64 up, and the powers of two below.
IsReducedBelow64SizeClass(size) == size >= 64 \/ size \in {1, 2, 4, 8, 16, 32}

\* Length(pages).in_bytes()
LengthInBytes(pages) == pages * (2 ^ kPageShift)

\* SizeClassInfo
SizeClassInfo(s, p, m) == [size |-> s, pages |-> p, num_to_move |-> m]

(***************************************************************************)
(* SizeMap::ValidSizeClasses.  parsed is a function on 0..n-1.             *)
(***************************************************************************)
RequiredAlignment(class_size) ==
  IF class_size <= kMultiPageSize THEN kAlignment
  ELSE IF class_size <= kMaxSmallSize THEN kMultiPageAlignment
  ELSE 128

\* One iteration of the loop: TRUE when none of its six rejections fires.
ValidClass_NoOrder(parsed, c) ==
  /\ ~(parsed[c].size > kMaxSize)
  /\ ~(parsed[c].size % RequiredAlignment(parsed[c].size) /= 0)
  /\ ~(parsed[c].size <= kMultiPageSize /\ parsed[c].pages /= 1)
  /\ ~(parsed[c].pages >= 256)
  /\ ~(parsed[c].num_to_move > kMaxObjectsToMove)
ValidClass(parsed, c) ==
  /\ ~(parsed[c].size <= parsed[c - 1].size)
  /\ ~(parsed[c].size > kMaxSize)
  /\ ~(parsed[c].size % RequiredAlignment(parsed[c].size) /= 0)
  /\ ~(parsed[c].size <= kMultiPageSize /\ parsed[c].pages /= 1)
  /\ ~(parsed[c].pages >= 256)
  /\ ~(parsed[c].num_to_move > kMaxObjectsToMove)

RECURSIVE ValidLoop(_, _, _)
ValidLoop(num_classes, parsed, c) ==
  IF c >= num_classes THEN parsed[num_classes - 1].size = kMaxSize
  ELSE IF ~ValidClass(parsed, c) THEN FALSE
  ELSE ValidLoop(num_classes, parsed, c + 1)

ValidSizeClasses(num_classes, parsed) ==
  IF num_classes <= 0 THEN FALSE
  ELSE IF kHasExpandedClasses /\ num_classes > kNumBaseClasses
       THEN ValidLoop(kNumBaseClasses, parsed, 1)
       ELSE ValidLoop(num_classes, parsed, 1)

(***************************************************************************)
(* SizeMap::SetSizeClasses on the three class tables, held as one record   *)
(* [size, pages, move] of functions on 0..kNumClasses-1.                   *)
(***************************************************************************)
ZeroTables ==
  [size  |-> [c \in 0..(kNumClasses - 1) |-> 0],
   pages |-> [c \in 0..(kNumClasses - 1) |-> 0],
   move  |-> [c \in 0..(kNumClasses - 1) |-> 0]]

SetClass(t, x, info) ==
  [size  |-> [t.size  EXCEPT ![x] = info.size],
   pages |-> [t.pages EXCEPT ![x] = info.pages],
   move  |-> [t.move  EXCEPT ![x] = info.num_to_move]]

\* for (c = 1; c < num_classes; c++): compacts the kept classes into curr.
RECURSIVE CopyLoop(_, _, _, _, _, _)
CopyLoop(t, num_classes, parsed, reduce, c, curr) ==
  IF c >= num_classes THEN [t |-> t, curr |-> curr]
  ELSE IF reduce /\ ~IsReducedBelow64SizeClass(parsed[c].size)
       THEN CopyLoop(t, num_classes, parsed, reduce, c + 1, curr)
       ELSE CopyLoop(SetClass(t, curr, parsed[c]), num_classes, parsed, reduce, c + 1, curr + 1)

\* for (x = curr; x < kNumBaseClasses; x++): zero the unspecified classes.
FillZero_Skip(t, curr) == t
FillZero(t, curr) ==
  [size  |-> [x \in DOMAIN t.size  |-> IF x >= curr /\ x < kNumBaseClasses THEN 0 ELSE t.size[x]],
   pages |-> [x \in DOMAIN t.pages |-> IF x >= curr /\ x < kNumBaseClasses THEN 0 ELSE t.pages[x]],
   move  |-> [x \in DOMAIN t.move  |-> IF x >= curr /\ x < kNumBaseClasses THEN 0 ELSE t.move[x]]]

\* std::copy of the base register into register i, for every i >= 1.
CopyRegisters(t) ==
  [size  |-> [x \in DOMAIN t.size  |-> t.size[x % kNumBaseClasses]],
   pages |-> [x \in DOMAIN t.pages |-> t.pages[x % kNumBaseClasses]],
   move  |-> [x \in DOMAIN t.move  |-> t.move[x % kNumBaseClasses]]]

\* The body of SetSizeClasses after its CHECK_CONDITION.
SetSizeClasses(t, num_classes, parsed, reduce) ==
  LET t0 == SetClass(t, 0, SizeClassInfo(0, 0, 0))
      r  == CopyLoop(t0, num_classes, parsed, reduce, 1, 1)
  IN  CopyRegisters(FillZero(r.t, r.curr))

\* CHECK_CONDITION(ValidSizeClasses(num_classes, parsed)) fails: the process aborts.
SetSizeClassesAborts_Never(num_classes, parsed) == FALSE
SetSizeClassesAborts(num_classes, parsed) == ~ValidSizeClasses(num_classes, parsed)

(***************************************************************************)
(* The lookup sweep of SizeMap::Init (lines 206-217).                      *)
(***************************************************************************)
\* The values s takes in: for (s = lo; s <= hi; s += kAlignment).
StepSizes(lo, hi) ==
  IF hi < lo THEN {} ELSE {lo + kAlignment * k : k \in 0..((hi - lo) \div kAlignment)}

\* for (s = lo; s <= hi; s += kAlignment) arr[ClassIndex(s) + off] = c;
FillRange_Exclusive(arr, lo, hi, off, c) ==
  LET idx == {ClassIndex(s) + off : s \in StepSizes(lo, hi - 1)}
  IN  [i \in DOMAIN arr |-> IF i \in idx THEN c ELSE arr[i]]
FillRange(arr, lo, hi, off, c) ==
  LET idx == {ClassIndex(s) + off : s \in StepSizes(lo, hi)}
  IN  [i \in DOMAIN arr |-> IF i \in idx THEN c ELSE arr[i]]

\* for (c = 1; c < kNumClasses; c++) { fill; next_size = ...; if (...) break; }
RECURSIVE LookupLoop(_, _, _, _)
LookupLoop(arr, sizes, c, next_size) ==
  IF c >= kNumClasses THEN [arr |-> arr, next_size |-> next_size]
  ELSE LET max_size_in_class == sizes[c]
           filled == FillRange(arr, next_size, max_size_in_class, 0, c)
           next   == max_size_in_class + kAlignment
       IN  IF next > kMaxSize THEN [arr |-> filled, next_size |-> next]
           ELSE LookupLoop(filled, sizes, c + 1, next)

\* std::copy(&class_array_[0], &class_array_[kClassArraySize], &class_array_[kClassArraySize])
CopyLower(arr) ==
  [i \in DOMAIN arr |-> IF i >= kClassArraySize THEN arr[i - kClassArraySize] ELSE arr[i]]

(***************************************************************************)
(* The cold-class sweep of SizeMap::Init (lines 234-283).                  *)
(***************************************************************************)
kColdCandidates ==
  <<2048, 4096, 6144, 7168, 8192, 16384, 20480, 32768, 40960, 65536, 131072, 262144>>

\* for (c = kExpandedClassesStart; c < kNumClasses; c++) if (class_to_size_[c] == max) break;
ColdMatches_AtMost(sizes, max_size_in_class) ==
  {c \in kExpandedClassesStart..(kNumClasses - 1) : sizes[c] <= max_size_in_class}
ColdMatches(sizes, max_size_in_class) ==
  {c \in kExpandedClassesStart..(kNumClasses - 1) : sizes[c] = max_size_in_class}
FirstOf(S) == CHOOSE c \in S : \A d \in S : c <= d

\* Length(class_to_pages_[c]).in_bytes() / max_size_in_class > Span::kCacheSize
ExceedsSpanCache_Never(pages, max_size_in_class) == FALSE
ExceedsSpanCache(pages, max_size_in_class) ==
  LengthInBytes(pages) \div max_size_in_class > kCacheSize

\* st = [arr, next_size, cold_sizes, count]; k indexes kColdCandidates.
RECURSIVE ColdLoop(_, _, _, _)
ColdLoop(st, sizes, pages, k) ==
  IF k > Len(kColdCandidates) THEN st
  ELSE LET max_size_in_class == kColdCandidates[k]
           found == ColdMatches(sizes, max_size_in_class)
       IN  IF found = {} THEN ColdLoop(st, sizes, pages, k + 1)
           ELSE LET c == FirstOf(found)
                IN  IF ExceedsSpanCache(pages[c], max_size_in_class)
                    THEN ColdLoop(st, sizes, pages, k + 1)
                    ELSE LET st2 ==
                               [arr        |-> FillRange(st.arr, st.next_size, max_size_in_class,
                                                         kClassArraySize, c),
                                next_size  |-> max_size_in_class + kAlignment,
                                cold_sizes |-> [st.cold_sizes EXCEPT ![st.count] = c],
                                count      |-> st.count + 1]
                         IN  IF st2.next_size > kMaxSize THEN st2
                             ELSE ColdLoop(st2, sizes, pages, k + 1)

ZeroColdSizes == [i \in 0..(kColdSizesCapacity - 1) |-> 0]

\* Lines 206-283 of Init: from the class tables and the old class_array_ to
\* the new class_array_, cold_sizes_ and cold_sizes_count_.  Without
\* expanded classes Init returns at line 220 and leaves the cold set alone.
BuildLookups(arr, t, old_cold, old_count, cold_active) ==
  LET lower == LookupLoop(arr, t.size, 1, 0)
  IN  IF ~kHasExpandedClasses
      THEN [arr |-> lower.arr, cold_sizes |-> old_cold, count |-> old_count]
      ELSE IF ~cold_active
      THEN [arr |-> CopyLower(lower.arr), cold_sizes |-> ZeroColdSizes, count |-> 0]
      ELSE LET st == ColdLoop([arr        |-> CopyLower(lower.arr),
                               next_size  |-> lower.next_size,
                               cold_sizes |-> ZeroColdSizes,
                               count      |-> 0], t.size, t.pages, 1)
           IN  [arr |-> st.arr, cold_sizes |-> st.cold_sizes, count |-> st.count]

(***************************************************************************)
(* The compiled-in specifications (size_classes.cc and the experimental    *)
(* tables) and what MaybeSizeClassesFromEnv can hand back.  A              *)
(* specification is [n, parsed], parsed a function on 0..n-1 whose entry 0 *)
(* is the reserved class {0, 0, 0}.                                        *)
(***************************************************************************)
\* A class of the given size with the page run the validator wants for it.
Class(size) == SizeClassInfo(size, IF size <= kMultiPageSize THEN 1 ELSE 2, 32)

\* The specification whose classes 1.. are the entries of seq.
Specification(seq) ==
  [n |-> Len(seq) + 1,
   parsed |-> [c \in 0..Len(seq) |-> IF c = 0 THEN SizeClassInfo(0, 0, 0) ELSE seq[c]]]

ShippedTable(name) ==
  CASE name = "kSizeClasses" ->
         Specification(<<Class(16), Class(24), Class(4096), Class(kMaxSize)>>)
    [] name = "kExperimentalPow2SizeClasses" ->
         Specification(<<Class(8), Class(16), Class(2048), Class(kMaxSize)>>)
    [] name = "kExperimentalPow2Below64SizeClasses" ->
         Specification(<<Class(16), Class(64), Class(kMaxSize)>>)
    [] name = "kExperimentalCFLAwareSizeClasses" ->
         Specification(<<Class(48), Class(2048), Class(6144), Class(kMaxSize)>>)

\* A table the validator rejects, one kind of damage per table.
CorruptTable(name) ==
  CASE name = "kSizeClasses" ->
         Specification(<<Class(16), Class(24), Class(4096), Class(kMaxSize - 128)>>)
    [] name = "kExperimentalPow2SizeClasses" ->
         Specification(<<Class(8), Class(8), Class(2048), Class(kMaxSize)>>)
    [] name = "kExperimentalPow2Below64SizeClasses" ->
         Specification(<<Class(16), Class(60), Class(kMaxSize)>>)
    [] name = "kExperimentalCFLAwareSizeClasses" ->
         Specification(<<Class(48), SizeClassInfo(2048, 2, 32), Class(6144), Class(kMaxSize)>>)

TableNames ==
  {"kSizeClasses", "kExperimentalPow2SizeClasses",
   "kExperimentalPow2Below64SizeClasses", "kExperimentalCFLAwareSizeClasses"}

\* A build is the set of its compiled-in tables that are damaged.
ShippedBuild == {}
Builds == {ShippedBuild} \cup {{name} : name \in TableNames}
CompiledTable(b, name) == IF name \in b THEN CorruptTable(name) ELSE ShippedTable(name)

\* kSizeClassesCount of size_classes.cc.
kSizeClassesCount == ShippedTable("kSizeClasses").n

\* Experiment::... flags (a production flag and its TEST_ONLY twin are one).
ExperimentNames == {"POW2_SIZECLASS", "POW2_BELOW_64", "CFL_AWARE_SIZE_CLASS", "REDUCED_BELOW_64"}
ExperimentSets == {{}} \cup {{e} : e \in ExperimentNames} \cup {ExperimentNames}

\* Sizes the generated overrides draw their middle classes from.
MidSizes == {16, 24, 1032, 1152, 2048, 4096}
GeneratedOverrides ==
  {Specification(<<Class(a), Class(b), Class(c), Class(kMaxSize)>>) :
     <<a, b, c>> \in {t \in MidSizes \X MidSizes \X MidSizes : t[1] < t[2] /\ t[2] < t[3]}}

\* A specification of n classes, valid on 0..n-2, followed by one more entry.
PaddedOverride(n, extra) ==
  [n |-> n,
   parsed |-> [c \in 0..(n - 1) |->
                 IF c = 0 THEN SizeClassInfo(0, 0, 0)
                 ELSE IF c = n - 1 THEN extra
                 ELSE IF c = n - 2 THEN Class(kMaxSize)
                 ELSE Class(8 * c)]]

\* The variable is unset: MaybeSizeClassesFromEnv returns 0 and fills nothing.
NoOverride == [n |-> 0, parsed |-> [c \in {} |-> SizeClassInfo(0, 0, 0)]]

PickedOverrides ==
  { NoOverride,
    Specification(<<>>),
    Specification(<<Class(16), Class(16), Class(4096), Class(kMaxSize)>>),
    Specification(<<Class(24), Class(16), Class(4096), Class(kMaxSize)>>),
    Specification(<<Class(16), Class(2048), Class(kMaxSize), Class(kMaxSize + 128)>>),
    Specification(<<Class(12), Class(24), Class(4096), Class(kMaxSize)>>),
    Specification(<<Class(16), Class(4096), Class(4160), Class(kMaxSize)>>),
    Specification(<<Class(16), SizeClassInfo(2048, 2, 32), Class(4096), Class(kMaxSize)>>),
    Specification(<<Class(16), Class(24), Class(4096), SizeClassInfo(kMaxSize, 256, 32)>>),
    Specification(<<Class(16), Class(2048), Class(4096), SizeClassInfo(kMaxSize, 255, 128)>>),
    Specification(<<Class(16), Class(24), SizeClassInfo(4096, 1, 129), Class(kMaxSize)>>),
    Specification(<<Class(16), Class(24), Class(2048), Class(4096)>>),
    Specification(<<Class(16), Class(2048), Class(kMaxSize)>>),
    Specification(<<Class(2048), SizeClassInfo(6144, 8, 32), Class(7168), Class(kMaxSize)>>),
    Specification(<<Class(2048), Class(4096), Class(8192), Class(kMaxSize)>>),
    PaddedOverride(kNumBaseClasses + 1, Class(8)) }

Overrides == GeneratedOverrides \cup PickedOverrides
FewOverrides ==
  { NoOverride,
    Specification(<<Class(16), Class(1152), Class(2048), Class(kMaxSize)>>) }

(***************************************************************************)
(* State.                                                                  *)
(***************************************************************************)
VARIABLES
  class_to_size_,        \* SizeMap's tables
  class_to_pages_,
  num_objects_to_move_,
  class_array_,
  cold_sizes_,
  cold_sizes_count_,
  build,                 \* which compiled-in tables the binary holds
  experiments,           \* the active experiments of the process
  env_classes,           \* what MaybeSizeClassesFromEnv returns
  cold_feature,          \* ColdFeatureActive()
  call,                  \* the last call made: [op, table, reduce, ret]
  aborted                \* a CHECK_CONDITION or Crash has ended the process

tables == <<class_to_size_, class_to_pages_, num_objects_to_move_>>
lookups == <<class_array_, cold_sizes_, cold_sizes_count_>>
environment == <<build, experiments, env_classes, cold_feature>>
vars == <<class_to_size_, class_to_pages_, num_objects_to_move_, class_array_,
          cold_sizes_, cold_sizes_count_, build, experiments, env_classes,
          cold_feature, call, aborted>>

\* The three tables as the record the operators above work on.
Tables == [size |-> class_to_size_, pages |-> class_to_pages_, move |-> num_objects_to_move_]

Returned(op, table, reduce, ret) == [op |-> op, table |-> table, reduce |-> reduce, ret |-> ret]

\* Static storage: every table starts zeroed.
InitObject ==
  /\ class_to_size_ = ZeroTables.size
  /\ class_to_pages_ = ZeroTables.pages
  /\ num_objects_to_move_ = ZeroTables.move
  /\ class_array_ = [i \in 0..(ClassArrayLen - 1) |-> 0]
  /\ cold_sizes_ = ZeroColdSizes
  /\ cold_sizes_count_ = 0
  /\ call = Returned("none", "", FALSE, FALSE)
  /\ aborted = FALSE

\* Every override is tried on the default build; the experimental builds are
\* tried with no override and with one accepted override.
Init ==
  /\ InitObject
  /\ build = ShippedBuild
  /\ experiments \in ExperimentSets
  /\ env_classes \in (IF experiments = {} THEN Overrides ELSE FewOverrides)
  /\ cold_feature \in BOOLEAN

\* The same program over a binary whose compiled-in tables may be damaged.
InitAnyBuild ==
  /\ InitObject
  /\ build \in Builds
  /\ experiments \in ExperimentSets
  /\ env_classes \in FewOverrides
  /\ cold_feature \in BOOLEAN

(***************************************************************************)
(* SizeMap::MaybeRunTimeSizeClasses on the tables t: the value returned,   *)
(* the tables it leaves, and whether SetSizeClasses' check ended the       *)
(* process.                                                                *)
(***************************************************************************)
MaybeRunTimeSizeClasses_AnyCount(t, env) ==
  IF ~ValidSizeClasses(env.n, env.parsed)
  THEN [ret |-> FALSE, t |-> t, aborted |-> FALSE]
  ELSE IF SetSizeClassesAborts(env.n, env.parsed)
  THEN [ret |-> FALSE, t |-> t, aborted |-> TRUE]
  ELSE [ret |-> TRUE, t |-> SetSizeClasses(t, env.n, env.parsed, FALSE), aborted |-> FALSE]
MaybeRunTimeSizeClasses(t, env) ==
  IF ~ValidSizeClasses(env.n, env.parsed)
  THEN [ret |-> FALSE, t |-> t, aborted |-> FALSE]
  ELSE IF env.n /= kSizeClassesCount
  THEN [ret |-> FALSE, t |-> t, aborted |-> FALSE]
  ELSE IF SetSizeClassesAborts(env.n, env.parsed)
  THEN [ret |-> FALSE, t |-> t, aborted |-> TRUE]
  ELSE [ret |-> TRUE, t |-> SetSizeClasses(t, env.n, env.parsed, FALSE), aborted |-> FALSE]

\* The if-chain of Init over the experiments: the table and the reduce flag
\* handed to SetSizeClasses.
SelectedTable(exps) ==
  IF "POW2_SIZECLASS" \in exps
  THEN [name |-> "kExperimentalPow2SizeClasses", reduce |-> FALSE]
  ELSE IF "POW2_BELOW_64" \in exps
  THEN [name |-> "kExperimentalPow2Below64SizeClasses", reduce |-> FALSE]
  ELSE IF "CFL_AWARE_SIZE_CLASS" \in exps
  THEN [name |-> "kExperimentalCFLAwareSizeClasses", reduce |-> FALSE]
  ELSE IF "REDUCED_BELOW_64" \in exps
  THEN [name |-> "kSizeClasses", reduce |-> TRUE]
  ELSE [name |-> "kSizeClasses", reduce |-> FALSE]

\* The two Crash checks at the head of Init.
InitCrashes == ClassIndex(0) /= 0 \/ ClassIndex(kMaxSize) >= ClassArrayLen

(***************************************************************************)
(* Actions: one per call into SizeMap.                                     *)
(***************************************************************************)
Abort(op, table, reduce) ==
  /\ aborted' = TRUE
  /\ call' = Returned(op, table, reduce, FALSE)
  /\ UNCHANGED <<tables, lookups, environment>>

\* SizeMap::ValidSizeClasses(count, spec) on the parsed override.
ValidSizeClassesCall ==
  /\ ~aborted
  /\ call' = Returned("ValidSizeClasses", "env", FALSE,
                      ValidSizeClasses(env_classes.n, env_classes.parsed))
  /\ UNCHANGED <<tables, lookups, environment, aborted>>

\* SizeMap::SetSizeClasses(count, table, reduce) on a compiled-in table.
SetSizeClassesCall ==
  /\ ~aborted
  /\ \E name \in TableNames, reduce \in BOOLEAN :
       LET spec == CompiledTable(build, name)
       IN  IF SetSizeClassesAborts(spec.n, spec.parsed)
           THEN Abort("SetSizeClasses", name, reduce)
           ELSE LET t == SetSizeClasses(Tables, spec.n, spec.parsed, reduce)
                IN  /\ class_to_size_' = t.size
                    /\ class_to_pages_' = t.pages
                    /\ num_objects_to_move_' = t.move
                    /\ call' = Returned("SetSizeClasses", name, reduce, FALSE)
                    /\ UNCHANGED <<lookups, environment, aborted>>

\* SizeMap::MaybeRunTimeSizeClasses().
MaybeRunTimeSizeClassesCall ==
  /\ ~aborted
  /\ LET r == MaybeRunTimeSizeClasses(Tables, env_classes)
     IN  IF r.aborted
         THEN Abort("MaybeRunTimeSizeClasses", "env", FALSE)
         ELSE /\ class_to_size_' = r.t.size
              /\ class_to_pages_' = r.t.pages
              /\ num_objects_to_move_' = r.t.move
              /\ call' = Returned("MaybeRunTimeSizeClasses", "env", FALSE, r.ret)
              /\ UNCHANGED <<lookups, environment, aborted>>

\* SizeMap::Init().
InitCall ==
  /\ ~aborted
  /\ LET sel  == SelectedTable(experiments)
         spec == CompiledTable(build, sel.name)
     IN  IF InitCrashes \/ SetSizeClassesAborts(spec.n, spec.parsed)
         THEN Abort("Init", sel.name, sel.reduce)
         ELSE LET t1 == SetSizeClasses(Tables, spec.n, spec.parsed, sel.reduce)
                  r  == MaybeRunTimeSizeClasses(t1, env_classes)
              IN  IF r.aborted
                  THEN Abort("Init", "env", FALSE)
                  ELSE LET b == BuildLookups(class_array_, r.t, cold_sizes_,
                                             cold_sizes_count_, cold_feature)
                       IN  /\ class_to_size_' = r.t.size
                           /\ class_to_pages_' = r.t.pages
                           /\ num_objects_to_move_' = r.t.move
                           /\ class_array_' = b.arr
                           /\ cold_sizes_' = b.cold_sizes
                           /\ cold_sizes_count_' = b.count
                           /\ call' = Returned("Init", sel.name, sel.reduce, r.ret)
                           /\ UNCHANGED <<environment, aborted>>

Next ==
  \/ ValidSizeClassesCall
  \/ SetSizeClassesCall
  \/ MaybeRunTimeSizeClassesCall
  \/ InitCall

Spec == Init /\ [][Next]_vars
SpecAnyBuild == InitAnyBuild /\ [][Next]_vars

(***************************************************************************)
(* Properties.                                                             *)
(***************************************************************************)
\* Init was the last call and it returned.
InitDone == call.op = "Init" /\ ~aborted

Sizes == 1..kMaxSize
BaseClasses == 1..(kNumBaseClasses - 1)
ColdSet == {cold_sizes_[i] : i \in 0..(cold_sizes_count_ - 1)}
ColdCandidateSizes == {kColdCandidates[k] : k \in 1..Len(kColdCandidates)}
LowerLookup(s) == class_array_[ClassIndex(s)]
UpperLookup(s) == class_array_[ClassIndex(s) + kClassArraySize]
ObjectsPerSpan(c) == LengthInBytes(class_to_pages_[c]) \div class_to_size_[c]

\* C1: after Init, for every size s in 1..kMaxSize the class the lower
\* lookup region gives has a size of at least s.
C1_NoUnderAllocation ==
  InitDone => \A s \in Sizes : class_to_size_[LowerLookup(s)] >= s

\* C1 witness: Init has completed on an accepted override that holds a class
\* of 1032 bytes, a size that is not the largest of its lookup slot.
C1_Witness ==
  /\ InitDone
  /\ call.ret
  /\ \E c \in BaseClasses : class_to_size_[c] = 1032

C4_Aligned(size) ==
  /\ size <= kMultiPageSize => size % kAlignment = 0
  /\ (kMultiPageSize < size /\ size <= kMaxSmallSize) => size % kMultiPageAlignment = 0
  /\ (size > kMultiPageSize /\ size > kMaxSmallSize) => size % 128 = 0

\* What the claim C4 says ValidSizeClasses(count, spec) returns.
C4_Accepted(spec) ==
  /\ spec.n > 0
  /\ LET m == IF kHasExpandedClasses /\ kNumBaseClasses < spec.n
              THEN kNumBaseClasses ELSE spec.n
     IN  /\ \A c \in 1..(m - 1) :
              /\ spec.parsed[c].size > spec.parsed[c - 1].size
              /\ spec.parsed[c].size <= kMaxSize
              /\ C4_Aligned(spec.parsed[c].size)
              /\ spec.parsed[c].size <= kMultiPageSize => spec.parsed[c].pages = 1
              /\ spec.parsed[c].pages < 256
              /\ spec.parsed[c].num_to_move <= kMaxObjectsToMove
         /\ spec.parsed[m - 1].size = kMaxSize

C5_Rejected(env) ==
  \/ env.n <= 0
  \/ ~ValidSizeClasses(env.n, env.parsed)
  \/ env.n /= kSizeClassesCount

\* C5: a rejected override returns false, never aborts, and leaves the three
\* class tables as they were; inside Init they stay as the selected
\* compiled-in specification set them.
C5_RejectedOverrideHasNoEffect ==
  [][/\ (call'.op = "MaybeRunTimeSizeClasses" /\ C5_Rejected(env_classes)) =>
          /\ call'.ret = FALSE
          /\ ~aborted'
          /\ UNCHANGED tables
     /\ (call'.op = "Init" /\ call'.table /= "env" /\ C5_Rejected(env_classes)) =>
          LET spec == CompiledTable(build, call'.table)
              t    == SetSizeClasses(ZeroTables, spec.n, spec.parsed, call'.reduce)
          IN  (~aborted' /\ ~call'.ret /\ tables' = <<t.size, t.pages, t.move>>)]_vars

\* C5 witness: a valid override of another class count has been rejected
\* while a specification was installed.
C5_Witness ==
  /\ call.op = "MaybeRunTimeSizeClasses"
  /\ ~call.ret
  /\ ValidSizeClasses(env_classes.n, env_classes.parsed)
  /\ env_classes.n /= kSizeClassesCount
  /\ class_to_size_[1] > 0

\* C6: after Init with the cold feature active, every class of the cold set
\* is a populated class of the expanded register whose size is a cold
\* candidate and is the size of a class of the base register, and its
\* objects-per-span count is at most Span::kCacheSize.
C6_ColdSubset ==
  (InitDone /\ cold_feature) =>
    /\ cold_sizes_count_ \in 0..kColdSizesCapacity
    /\ \A c \in ColdSet :
         /\ c \in kExpandedClassesStart..(kNumClasses - 1)
         /\ class_to_size_[c] \in ColdCandidateSizes
         /\ \E b \in BaseClasses :
              /\ class_to_size_[b] = class_to_size_[c]
              /\ class_to_pages_[b] = class_to_pages_[c]
         /\ ObjectsPerSpan(c) <= kCacheSize

\* C6 witness: the cold set holds a class while a candidate of the table was
\* left out for exceeding the per-span cap.
C6_Witness ==
  /\ InitDone
  /\ cold_feature
  /\ cold_sizes_count_ >= 2
  /\ \E c \in kExpandedClassesStart..(kNumClasses - 1) :
       /\ class_to_size_[c] \in ColdCandidateSizes
       /\ ObjectsPerSpan(c) > kCacheSize
       /\ c \notin ColdSet

\* C7: whatever the tables held, a build leaves them as the same build
\* leaves zeroed tables: for SetSizeClasses on a compiled-in table, for an
\* accepted override, and for the tables Init ends with.
C7_BuildIgnoresPriorTables ==
  [][/\ (call'.op = "SetSizeClasses" /\ ~aborted') =>
          LET spec == CompiledTable(build, call'.table)
              t    == SetSizeClasses(ZeroTables, spec.n, spec.parsed, call'.reduce)
          IN  tables' = <<t.size, t.pages, t.move>>
     /\ (call'.op \in {"MaybeRunTimeSizeClasses", "Init"} /\ call'.ret /\ ~aborted') =>
          LET t == SetSizeClasses(ZeroTables, env_classes.n, env_classes.parsed, FALSE)
          IN  tables' = <<t.size, t.pages, t.move>>]_vars

\* C7 witness: SetSizeClasses has left fewer populated classes than the
\* table Init looked up before it.
C7_Witness ==
  /\ call.op = "SetSizeClasses"
  /\ ~aborted
  /\ \E c \in BaseClasses :
       /\ class_to_size_[c] = 0
       /\ LowerLookup(kMaxSize) = c

\* C8: after Init with the cold feature active, the upper lookup of the
\* size of every class of the cold set gives that class.
C8_ColdOwnSizeLookup ==
  (InitDone /\ cold_feature) =>
    \A c \in ColdSet : UpperLookup(class_to_size_[c]) = c

\* The compiled-in table Init selects fails the validator.
SelectedTableInvalid ==
  LET spec == CompiledTable(build, SelectedTable(experiments).name)
  IN  ~ValidSizeClasses(spec.n, spec.parsed)

\* C9 as claimed: Init is never aborted because the compiled-in table it
\* selected fails the validator.
C9_InvalidCompiledInNeverFatal ==
  (call.op = "Init" /\ SelectedTableInvalid) => ~aborted

\* C9 as the code has it: Init on a selected compiled-in table that fails
\* the validator aborts in SetSizeClasses' CHECK_CONDITION, with no table
\* and no lookup written; on a valid one it does not abort.
C9_InvalidCompiledInAborts ==
  [][call'.op = "Init" =>
       IF SelectedTableInvalid
       THEN aborted' /\ UNCHANGED <<tables, lookups>>
       ELSE ~aborted']_vars

\* C9 witness: Init has aborted on a damaged experimental table.
C9_Witness ==
  /\ call.op = "Init"
  /\ aborted
  /\ SelectedTableInvalid
  /\ experiments /= {}

\* C10: after Init, cold feature or not, for every size s in 1..kMaxSize the
\* class the upper lookup region gives has a size of at least s.
C10_ColdNoUnderAllocation ==
  InitDone => \A s \in Sizes : class_to_size_[UpperLookup(s)] >= s

\* C10 witness: the upper region holds a class of the cold set, with two or
\* more classes in the set and one candidate left out for the per-span cap.
C10_Witness ==
  /\ InitDone
  /\ cold_feature
  /\ cold_sizes_count_ >= 2
  /\ \E s \in Sizes : UpperLookup(s) \in ColdSet
  /\ \E c \in kExpandedClassesStart..(kNumClasses - 1) :
       class_to_size_[c] \in ColdCandidateSizes /\ c \notin ColdSet

====
